---- MODULE Spec2Model ----
(***************************************************************************)
(* Package octo: Cayley octonions (cayley.go) and Klein (split) octonions, *)
(* each an ordered array of two POINTERS to quat.Hamilton values.          *)
(*                                                                         *)
(* The model keeps the pointer structure: a heap of quaternion cells and   *)
(* objects that hold two cell addresses.  Every method is a transformer of *)
(* that store, written statement by statement from its Go body, so that    *)
(* destination aliasing and in-place writes are decided by the model and   *)
(* not assumed.                                                            *)
(*                                                                         *)
(* float64 is modelled bit for bit: sign, 53-bit significand and exponent, *)
(* the two zeros, the infinities and NaN, with every operation rounded to  *)
(* nearest, ties to even.                                                  *)
(***************************************************************************)
EXTENDS Integers, Sequences, FiniteSets

VARIABLES
    variant,   \* "Cayley" or "Klein": the type of every object of the pool
    heap,      \* sequence of quaternion cells (the quat.Hamilton values)
    obj,       \* sequence of objects: obj[i] = <<addr of z[0], addr of z[1]>>
    pre,       \* values of the pool objects when the last call was made
    last,      \* the last call: method, destination, operands, outcome
    aliasing,  \* TRUE: calls pick destination and operands freely
    fuel       \* calls left

vars == <<variant, heap, obj, pre, last, aliasing, fuel>>

----------------------------------------------------------------------------
(* Bounds *)

MaxCoord == 3      \* the divisor's second half has a coordinate in 0..MaxCoord
MaxSteps == 2      \* calls per run when destinations may alias operands
MaxAbs == 16       \* a call is explored while the finite coordinates of its
                   \* result stay within -MaxAbs..MaxAbs

----------------------------------------------------------------------------
(* Only({e : x \in {v}}) is e with x bound to the value of v, which is     *)
(* computed once: "x := v; e".                                             *)

Only(S) == CHOOSE r \in S : TRUE

----------------------------------------------------------------------------
(* Natural numbers of any size, for the 53-bit significands of float64 and *)
(* their 106-bit products: a sequence of limbs in base Base, least         *)
(* significant first, without leading zero limbs; <<>> is 0.               *)

Base == 32768

LimbBits == 15

Pow2(k) == 2 ^ k

Limb0(a) == IF a = <<>> THEN 0 ELSE a[1]

Rest(a) == IF a = <<>> THEN <<>> ELSE Tail(a)

RECURSIVE BTrim(_)
BTrim(a) ==
    Only({ IF x = <<>> \/ x[Len(x)] # 0 THEN x
           ELSE BTrim(SubSeq(x, 1, Len(x) - 1))
        : x \in {a} })

\* The integer n, 0 <= n < Base^3.
BFromInt(n) ==
    Only({ BTrim(<<x % Base, (x \div Base) % Base, x \div (Base * Base)>>)
        : x \in {n} })

RECURSIVE BAddC(_, _, _)
BAddC(a, b, c) ==
    Only({ IF x = <<>> /\ y = <<>> THEN (IF c = 0 THEN <<>> ELSE <<c>>)
           ELSE Only({ <<t % Base>> \o BAddC(Rest(x), Rest(y), t \div Base)
                    : t \in {Limb0(x) + Limb0(y) + c} })
        : x \in {a}, y \in {b} })

BAdd(a, b) == BAddC(a, b, 0)

\* a - b for a >= b; c is the borrow.
RECURSIVE BSubC(_, _, _)
BSubC(a, b, c) ==
    Only({ IF x = <<>> THEN <<>>
           ELSE Only({ IF t < 0 THEN <<t + Base>> \o BSubC(Tail(x), Rest(y), 1)
                       ELSE <<t>> \o BSubC(Tail(x), Rest(y), 0)
                    : t \in {x[1] - Limb0(y) - c} })
        : x \in {a}, y \in {b} })

BSub(a, b) == BTrim(BSubC(a, b, 0))

\* -1, 0, 1 as a < b, a = b, a > b.
BCmp(a, b) ==
    Only({ IF Len(x) # Len(y) THEN (IF Len(x) < Len(y) THEN -1 ELSE 1)
           ELSE IF x = y THEN 0
           ELSE Only({ IF x[i] < y[i] THEN -1 ELSE 1
                    : i \in {CHOOSE i \in 1..Len(x) :
                               x[i] # y[i] /\ \A j \in (i + 1)..Len(x) : x[j] = y[j]} })
        : x \in {a}, y \in {b} })

\* a * k + c for a limb k.
RECURSIVE BMulSmall(_, _, _)
BMulSmall(a, k, c) ==
    Only({ IF x = <<>> THEN (IF y = 0 THEN <<>> ELSE <<y>>)
           ELSE Only({ <<t % Base>> \o BMulSmall(Tail(x), k, t \div Base)
                    : t \in {x[1] * k + y} })
        : x \in {a}, y \in {c} })

ShiftLimb(a) == Only({ IF x = <<>> THEN <<>> ELSE <<0>> \o x : x \in {a} })

RECURSIVE BMul(_, _)
BMul(a, b) ==
    Only({ IF x = <<>> \/ y = <<>> THEN <<>>
           ELSE BAdd(BMulSmall(x, y[1], 0), ShiftLimb(BMul(x, Tail(y))))
        : x \in {a}, y \in {b} })

\* a * 2^k
BShl(a, k) ==
    Only({ IF x = <<>> THEN <<>>
           ELSE [i \in 1..(n \div LimbBits) |-> 0]
                    \o BMulSmall(x, Pow2(n % LimbBits), 0)
        : x \in {a}, n \in {k} })

\* a \div 2^k
BShr(a, k) ==
    Only({ IF n \div LimbBits >= Len(x) THEN <<>>
           ELSE Only({ BTrim([i \in 1..Len(y) |->
                                (y[i] \div Pow2(r))
                                + (IF i < Len(y) THEN y[i + 1] % Pow2(r) ELSE 0)
                                  * Pow2(LimbBits - r)])
                    : y \in {SubSeq(x, n \div LimbBits + 1, Len(x))},
                      r \in {n % LimbBits} })
        : x \in {a}, n \in {k} })

\* Number of bits of a: 0 for 0, else 1 + floor(log2(a)).
BitLen(a) ==
    Only({ IF x = <<>> THEN 0
           ELSE LimbBits * (Len(x) - 1)
                + (CHOOSE k \in 1..LimbBits :
                       Pow2(k - 1) <= x[Len(x)] /\ x[Len(x)] < Pow2(k))
        : x \in {a} })

\* Number of trailing zero bits of a # 0.
BTZ(a) ==
    Only({ Only({ LimbBits * (i - 1)
                  + (CHOOSE k \in 0..(LimbBits - 1) :
                         x[i] % Pow2(k + 1) = Pow2(k))
               : i \in {CHOOSE i \in 1..Len(x) :
                          x[i] # 0 /\ \A j \in 1..(i - 1) : x[j] = 0} })
        : x \in {a} })

\* Bit i of a (bit 0 is the least significant; 0 for i < 0).
BBit(a, i) ==
    Only({ IF n < 0 \/ n \div LimbBits >= Len(x) THEN 0
           ELSE (x[n \div LimbBits + 1] \div Pow2(n % LimbBits)) % 2
        : x \in {a}, n \in {i} })

----------------------------------------------------------------------------
(* float64.  A value is a record: k = "fin" with sign s, significand m and *)
(* exponent e for s * m * 2^e, m odd (or 0, with e = 0: the two zeros);    *)
(* k = "inf" with sign s; k = "nan".  Every operation rounds its exact     *)
(* result to nearest, ties to even, to 53 bits, with gradual underflow     *)
(* and overflow to infinity.                                               *)

MantBits == 53

MaxExp == 1023

MinExp == 0 - 1074

Fin(s, m, e) == [k |-> "fin", s |-> s, m |-> m, e |-> e]

Zero(s) == Fin(s, <<>>, 0)

Inf(s) == [k |-> "inf", s |-> s, m |-> <<>>, e |-> 0]

NaN == [k |-> "nan", s |-> 1, m |-> <<>>, e |-> 0]

IsNaN(a) == a.k = "nan"

IsInf(a) == a.k = "inf"

IsFinite(a) == a.k = "fin"

IsZero(a) == a.k = "fin" /\ a.m = <<>>

\* s * M * 2^e, exactly representable but for its range: the significand
\* is made odd, and a value of 2^1024 or more is an infinity.
Pack(s, M, e) ==
    Only({ IF x = <<>> THEN Zero(s)
           ELSE Only({ IF e + BitLen(x) - 1 > MaxExp THEN Inf(s)
                       ELSE Fin(s, BShr(x, t), e + t)
                    : t \in {BTZ(x)} })
        : x \in {M} })

Max(a, b) == IF a >= b THEN a ELSE b

Min(a, b) == IF a <= b THEN a ELSE b

\* s * M * 2^e for M > 0 rounded to float64.  d is the number of low bits
\* of M that do not fit (53 bits are kept, fewer below 2^-1022); the kept
\* bits are incremented when the dropped ones are more than half a unit,
\* or exactly half with the last kept bit set.
Round(s, M, e) ==
    Only({ Only({ Only({ Pack(s,
                             IF /\ BBit(x, d - 1) = 1
                                /\ (BTZ(x) < d - 1 \/ BBit(x, d) = 1)
                             THEN BAdd(kept, <<1>>)
                             ELSE kept,
                             ex + d)
                      : kept \in {BShr(x, d)} })
               : d \in {Max(Max(BitLen(x) - MantBits, MinExp - ex), 0)} })
        : x \in {M}, ex \in {e} })

\* float64(n) for an integer n, |n| < Base^3.
F(n) ==
    Only({ IF x = 0 THEN Zero(1)
           ELSE Round(IF x < 0 THEN -1 ELSE 1,
                      BFromInt(IF x < 0 THEN 0 - x ELSE x), 0)
        : x \in {n} })

FNeg(a) == Only({ IF x.k = "nan" THEN x ELSE [x EXCEPT !.s = -x.s] : x \in {a} })

FAbs(a) == Only({ IF x.k = "nan" THEN x ELSE [x EXCEPT !.s = 1] : x \in {a} })

\* x + y for finite nonzero x and y: the exact sum, rounded.  X and Y are
\* the two significands at the common exponent e; c compares them.
AddFin(x, y) ==
    Only({ Only({ Only({ IF x.s # y.s /\ c = 0 THEN Zero(1)
                         ELSE Round(IF x.s = y.s \/ c > 0 THEN x.s ELSE y.s,
                                    IF x.s = y.s THEN BAdd(X, Y)
                                    ELSE IF c > 0 THEN BSub(X, Y)
                                    ELSE BSub(Y, X),
                                    e)
                      : c \in {BCmp(X, Y)} })
               : X \in {BShl(x.m, x.e - e)}, Y \in {BShl(y.m, y.e - e)} })
        : e \in {Min(x.e, y.e)} })

FAdd(a, b) ==
    Only({ IF x.k = "nan" \/ y.k = "nan" THEN NaN
           ELSE IF x.k = "inf"
                THEN (IF y.k = "inf" /\ y.s # x.s THEN NaN ELSE x)
           ELSE IF y.k = "inf" THEN y
           ELSE IF x.m = <<>>
                THEN (IF y.m = <<>> THEN (IF x.s = y.s THEN x ELSE Zero(1)) ELSE y)
           ELSE IF y.m = <<>> THEN x
           ELSE AddFin(x, y)
        : x \in {a}, y \in {b} })

FSub(a, b) == FAdd(a, FNeg(b))

FMul(a, b) ==
    Only({ IF x.k = "nan" \/ y.k = "nan" THEN NaN
           ELSE IF x.k = "inf" \/ y.k = "inf"
                THEN (IF IsZero(x) \/ IsZero(y) THEN NaN ELSE Inf(x.s * y.s))
           ELSE IF x.m = <<>> \/ y.m = <<>> THEN Zero(x.s * y.s)
           ELSE Round(x.s * y.s, BMul(x.m, y.m), x.e + y.e)
        : x \in {a}, y \in {b} })

\* One step of the binary long division: t = <<r, q, d>> with the rest r
\* (r < 2d), the quotient bits q produced so far and the divisor d.
DivStep(t) ==
    Only({ IF BCmp(x[1], x[3]) >= 0
           THEN <<BMulSmall(BSub(x[1], x[3]), 2, 0), BMulSmall(x[2], 2, 1), x[3]>>
           ELSE <<BMulSmall(x[1], 2, 0), BMulSmall(x[2], 2, 0), x[3]>>
        : x \in {t} })

\* n steps, n <= StepsPerRound.
RECURSIVE DivSteps(_, _)
DivSteps(t, n) ==
    Only({ IF n = 0 THEN x ELSE DivSteps(DivStep(x), n - 1) : x \in {t} })

StepsPerRound == 8

\* n rounds of StepsPerRound steps.
RECURSIVE DivRounds(_, _)
DivRounds(t, n) ==
    Only({ IF n = 0 THEN x ELSE DivRounds(DivSteps(x, StepsPerRound), n - 1)
        : x \in {t} })

\* Number of quotient bits produced: 7 rounds and one more step.
QuoBits == 57

\* QuoBits steps of the division of r by d: <<rest, quotient, d>>.
DivBits(r, d) ==
    DivSteps(DivRounds(<<r, <<>>, d>>, QuoBits \div StepsPerRound),
             QuoBits % StepsPerRound)

\* x / y for finite nonzero x and y.  The significands are aligned to the
\* same length, QuoBits bits of the quotient are produced, and a last bit
\* records whether the division left a rest.
DivFin(x, y) ==
    Only({ Only({ Round(x.s * y.s,
                        BMulSmall(r[2], 2, IF r[1] = <<>> THEN 0 ELSE 1),
                        x.e - y.e + g - QuoBits)
               : r \in {DivBits(BShl(x.m, Max(0 - g, 0)), BShl(y.m, Max(g, 0)))} })
        : g \in {BitLen(x.m) - BitLen(y.m)} })

FDiv(a, b) ==
    Only({ IF x.k = "nan" \/ y.k = "nan" THEN NaN
           ELSE IF x.k = "inf"
                THEN (IF y.k = "inf" THEN NaN ELSE Inf(x.s * y.s))
           ELSE IF y.k = "inf" THEN Zero(x.s * y.s)
           ELSE IF y.m = <<>>
                THEN (IF x.m = <<>> THEN NaN ELSE Inf(x.s * y.s))
           ELSE IF x.m = <<>> THEN Zero(x.s * y.s)
           ELSE DivFin(x, y)
        : x \in {a}, y \in {b} })

\* float64 ==: NaN equals nothing, itself included; the two zeros are equal.
FEq(a, b) ==
    Only({ /\ x.k # "nan"
           /\ y.k # "nan"
           /\ (x = y \/ (IsZero(x) /\ IsZero(y)))
        : x \in {a}, y \in {b} })

\* float64 >: a > b.
FGt(a, b) ==
    Only({ x.k # "nan" /\ x.s = 1 /\ ~IsZero(x) : x \in {FSub(a, b)} })

----------------------------------------------------------------------------
(* octo.go: the tolerance and the comparison that uses it.                 *)

\* const delta = 0.00000001, as the float64 0x1.5798ee2308c3ap-27.
delta == Fin(1, <<17949, 25136, 29469, 85>>, 0 - 78)

notEquals(a, b) ==
    Only({ FGt(FSub(x, y), delta) \/ FGt(FSub(y, x), delta)
        : x \in {a}, y \in {b} })

----------------------------------------------------------------------------
(* quat.Hamilton (external package): a quaternion a + bi + cj + dk as the  *)
(* tuple <<a, b, c, d>>.                                                   *)

QZero == <<F(0), F(0), F(0), F(0)>>

\* The tuple of the four values of f.
Tup4(f) == Only({ <<t[1], t[2], t[3], t[4]>> : t \in {f} })

QAdd(p, q) == Only({ Tup4([k \in 1..4 |-> FAdd(x[k], y[k])]) : x \in {p}, y \in {q} })

QSub(p, q) == Only({ Tup4([k \in 1..4 |-> FSub(x[k], y[k])]) : x \in {p}, y \in {q} })

QDil(p, a) == Only({ Tup4([k \in 1..4 |-> FMul(x[k], y)]) : x \in {p}, y \in {a} })

QNeg(p) == QDil(p, F(-1))

QConj(p) == Only({ <<x[1], FNeg(x[2]), FNeg(x[3]), FNeg(x[4])>> : x \in {p} })

\* ((a + b) + c) + d, as Go evaluates a + b + c + d.
Sum4(t) == Only({ FAdd(FAdd(FAdd(x[1], x[2]), x[3]), x[4]) : x \in {t} })

\* The Hamilton product: coordinate k of p * q is the sum over n of
\* s * p[i] * q[j] for <<i, j, s>> = HamiltonTable[k][n].
HamiltonTable ==
    << << <<1, 1, 1>>, <<2, 2, -1>>, <<3, 3, -1>>, <<4, 4, -1>> >>,
       << <<1, 2, 1>>, <<2, 1, 1>>,  <<3, 4, 1>>,  <<4, 3, -1>> >>,
       << <<1, 3, 1>>, <<2, 4, -1>>, <<3, 1, 1>>,  <<4, 2, 1>> >>,
       << <<1, 4, 1>>, <<2, 3, 1>>,  <<3, 2, -1>>, <<4, 1, 1>> >> >>

\* The term s * a * b of a coordinate: the product is rounded, then negated.
Term(a, b, s) ==
    Only({ IF s = 1 THEN m ELSE FNeg(m) : m \in {FMul(a, b)} })

QMul(p, q) ==
    Only({ Tup4([k \in 1..4 |->
                   Sum4(Tup4([n \in 1..4 |->
                                Term(x[HamiltonTable[k][n][1]],
                                     y[HamiltonTable[k][n][2]],
                                     HamiltonTable[k][n][3])]))])
        : x \in {p}, y \in {q} })

QQuad(p) ==
    Only({ Sum4(Tup4([k \in 1..4 |-> FMul(x[k], x[k])])) : x \in {p} })

QEquals(p, q) == Only({ \A k \in 1..4 : FEq(x[k], y[k]) : x \in {p}, y \in {q} })

----------------
(* The store: st.h is the heap of quaternion cells, st.o the objects (the  *)
(* pool first, then the temporaries a method allocates), st.panic whether  *)
(* the call has panicked.  Address 0 is the nil pointer.                   *)

\* new(Cayley), new(Klein): an object whose two pointers are nil.
NewObj(st) == [st EXCEPT !.o = Append(@, <<0, 0>>)]

\* The object new(...) has just returned.
Top(st) == Len(st.o)

\* *z[k-1]: the quaternion that pointer k of object z points to.
H(st, z, k) == st.h[st.o[z][k]]

\* z[k-1] = new(quat.Hamilton).Op(...): a fresh cell holding v, and the
\* pointer of z redirected to it.
SetPtr(st, z, k, v) ==
    [st EXCEPT !.h = Append(@, v), !.o[z][k] = Len(st.h) + 1]

\* The value of object z: its two quaternions.
Val(st, z) == <<H(st, z, 1), H(st, z, 2)>>

\* &Cayley{&quat.Hamilton{0, 0}, &quat.Hamilton{0, 0}}
ZeroLit == <<QZero, QZero>>

EqualsVal(u, v) ==
    Only({ IF ~QEquals(z[1], y[1]) \/ ~QEquals(z[2], y[2]) THEN FALSE ELSE TRUE
        : z \in {u}, y \in {v} })

Equals(st, z, y) == EqualsVal(Val(st, z), Val(st, y))

----------------------------------------------------------------------------
(* Methods shared by the two types (the bodies are the same text).  Each   *)
(* takes the store at the call and gives the store at the return.          *)

\* Copy that copies the two pointers instead of the two quaternions.
CopyShallow(st, z, y) ==
    [st EXCEPT !.o[z] = st.o[y]]

Copy(st, z, y) ==
    Only({ SetPtr(s1, z, 2, H(s1, y, 2))
        : s1 \in {SetPtr(st, z, 1, H(st, y, 1))} })

ScalR(st, z, y, a) ==
    Only({ SetPtr(s1, z, 2, QMul(H(s1, y, 2), a))
        : s1 \in {SetPtr(st, z, 1, QMul(H(st, y, 1), a))} })

ScalL(st, z, a, y) ==
    Only({ SetPtr(s1, z, 2, QMul(a, H(s1, y, 2)))
        : s1 \in {SetPtr(st, z, 1, QMul(a, H(st, y, 1)))} })

Dil(st, z, y, a) ==
    Only({ SetPtr(s1, z, 2, QDil(H(s1, y, 2), a))
        : s1 \in {SetPtr(st, z, 1, QDil(H(st, y, 1), a))} })

Neg(st, z, y) == Dil(st, z, y, F(-1))

\* Conj that copies the second half without negating it.
ConjNoNeg(st, z, y) ==
    Only({ SetPtr(s1, z, 2, H(s1, y, 2))
        : s1 \in {SetPtr(st, z, 1, QConj(H(st, y, 1)))} })

Conj(st, z, y) ==
    Only({ SetPtr(s1, z, 2, QNeg(H(s1, y, 2)))
        : s1 \in {SetPtr(st, z, 1, QConj(H(st, y, 1)))} })

Add(st, z, x, y) ==
    Only({ SetPtr(s1, z, 2, QAdd(H(s1, x, 2), H(s1, y, 2)))
        : s1 \in {SetPtr(st, z, 1, QAdd(H(st, x, 1), H(st, y, 1)))} })

Sub(st, z, x, y) ==
    Only({ SetPtr(s1, z, 2, QSub(H(s1, x, 2), H(s1, y, 2)))
        : s1 \in {SetPtr(st, z, 1, QSub(H(st, x, 1), H(st, y, 1)))} })

----------------------------------------------------------------------------
(* Mul.  p and q are fresh copies of x and y; z[0] is assigned before z[1] *)
(* is computed; q[0].Conj(q[0]) overwrites the cell q[0] points to.        *)

\* Lines 167-175 of Cayley.Mul, with p and q bound: s1 is the store after
\* z[0] is assigned, s2 the store after q[0].Conj(q[0]).
CayleyMulBody(st, z, p, q) ==
    Only({ Only({ SetPtr(s2, z, 2,
             QAdd(QMul(H(s1, q, 2), H(s1, p, 1)),
                  QMul(H(s2, p, 2), H(s2, q, 1))))
        : s2 \in {[s1 EXCEPT !.h[s1.o[q][1]] = QConj(@)]} })
        : s1 \in {SetPtr(st, z, 1,
                         QSub(QMul(H(st, p, 1), H(st, q, 1)),
                              QMul(QConj(H(st, q, 2)), H(st, p, 2))))} })

\* Cayley.Mul without the copies: p and q are x and y themselves.
CayleyMulNoCopy(st, z, x, y) == CayleyMulBody(st, z, x, y)

CayleyMul(st, z, x, y) ==
    Only({ Only({ CayleyMulBody(s2, z, Top(s1), Top(s2))
        : s2 \in {Copy(NewObj(s1), Top(NewObj(s1)), y)} })
        : s1 \in {Copy(NewObj(st), Top(NewObj(st)), x)} })

\* Lines 168-176 of Klein.Mul, with p and q bound: the first half adds.
KleinMulBody(st, z, p, q) ==
    Only({ Only({ SetPtr(s2, z, 2,
             QAdd(QMul(H(s1, q, 2), H(s1, p, 1)),
                  QMul(H(s2, p, 2), H(s2, q, 1))))
        : s2 \in {[s1 EXCEPT !.h[s1.o[q][1]] = QConj(@)]} })
        : s1 \in {SetPtr(st, z, 1,
                         QAdd(QMul(H(st, p, 1), H(st, q, 1)),
                              QMul(QConj(H(st, q, 2)), H(st, p, 2))))} })

\* Klein.Mul with the first half left as in Cayley.Mul (it subtracts).
KleinMulSubtracts(st, z, x, y) == CayleyMul(st, z, x, y)

KleinMul(st, z, x, y) ==
    Only({ Only({ KleinMulBody(s2, z, Top(s1), Top(s2))
        : s2 \in {Copy(NewObj(s1), Top(NewObj(s1)), y)} })
        : s1 \in {Copy(NewObj(st), Top(NewObj(st)), x)} })

Mul(K, st, z, x, y) ==
    IF K = "Cayley" THEN CayleyMul(st, z, x, y) ELSE KleinMul(st, z, x, y)

\* s1: after the first new(Cayley).Mul(x, y), held by object Top(NewObj(st)).
Commutator(K, st, z, x, y) ==
    Only({ Only({ Sub(s2, z, Top(NewObj(st)), Top(NewObj(s1)))
        : s2 \in {Mul(K, NewObj(s1), Top(NewObj(s1)), y, x)} })
        : s1 \in {Mul(K, NewObj(st), Top(NewObj(st)), x, y)} })

\* Associator whose second term repeats the grouping of the first.
AssociatorSameGrouping(K, st, z, w, x, y) ==
    Only({ Only({ Only({ Only({ Sub(s4, z, Top(NewObj(s1)), Top(NewObj(s3)))
        : s4 \in {Mul(K, NewObj(s3), Top(NewObj(s3)), Top(NewObj(s2)), y)} })
        : s3 \in {Mul(K, NewObj(s2), Top(NewObj(s2)), w, x)} })
        : s2 \in {Mul(K, NewObj(s1), Top(NewObj(s1)), Top(NewObj(st)), y)} })
        : s1 \in {Mul(K, NewObj(st), Top(NewObj(st)), w, x)} })

\* s1: after Mul(w, x); s2: after Mul(Mul(w, x), y); s3: after Mul(x, y);
\* s4: after Mul(w, Mul(x, y)).  Each result is held by the object
\* allocated for it, Top(NewObj(..)) of the store before.
Associator(K, st, z, w, x, y) ==
    Only({ Only({ Only({ Only({ Sub(s4, z, Top(NewObj(s1)), Top(NewObj(s3)))
        : s4 \in {Mul(K, NewObj(s3), Top(NewObj(s3)), w, Top(NewObj(s2)))} })
        : s3 \in {Mul(K, NewObj(s2), Top(NewObj(s2)), x, y)} })
        : s2 \in {Mul(K, NewObj(s1), Top(NewObj(s1)), Top(NewObj(st)), y)} })
        : s1 \in {Mul(K, NewObj(st), Top(NewObj(st)), w, x)} })

CayleyQuad(st, z) == FAdd(QQuad(H(st, z, 1)), QQuad(H(st, z, 2)))

\* Klein.Quad left as in Cayley.Quad (it adds).
KleinQuadPlus(st, z) == FAdd(QQuad(H(st, z, 1)), QQuad(H(st, z, 2)))

KleinQuad(st, z) == FSub(QQuad(H(st, z, 1)), QQuad(H(st, z, 2)))

Quad(K, st, z) ==
    IF K = "Cayley" THEN CayleyQuad(st, z) ELSE KleinQuad(st, z)

----------------------------------------------------------------------------
(* Inv and Quo.  Cayley's are cayley.go:199-213.  Klein's are not in the   *)
(* available source; they are taken from the specification (section 4.1):  *)
(* the same zero-literal guard and the same formula over the Klein         *)
(* methods.                                                                *)

\* Inv without the zero guard.
CayleyInvNoGuard(st, z, y) ==
    Only({ Dil(s1, z, Top(NewObj(st)), FDiv(F(1), CayleyQuad(s1, y)))
        : s1 \in {Conj(NewObj(st), Top(NewObj(st)), y)} })

\* Inv that dilates y itself instead of its conjugate.
CayleyInvNoConj(st, z, y) ==
    IF EqualsVal(Val(st, y), ZeroLit)
    THEN [st EXCEPT !.panic = TRUE]
    ELSE Dil(st, z, y, FDiv(F(1), CayleyQuad(st, y)))

CayleyInv(st, z, y) ==
    IF EqualsVal(Val(st, y), ZeroLit)
    THEN [st EXCEPT !.panic = TRUE]
    ELSE Only({ Dil(s1, z, Top(NewObj(st)), FDiv(F(1), CayleyQuad(s1, y)))
             : s1 \in {Conj(NewObj(st), Top(NewObj(st)), y)} })

\* Quo that multiplies by the conjugate on the left: Conj(y) * x.
CayleyQuoSwapped(st, z, x, y) ==
    IF EqualsVal(Val(st, y), ZeroLit)
    THEN [st EXCEPT !.panic = TRUE]
    ELSE Only({ Only({ Dil(s2, z, Top(NewObj(s1)), FDiv(F(1), CayleyQuad(s2, y)))
             : s2 \in {CayleyMul(NewObj(s1), Top(NewObj(s1)), Top(NewObj(st)), x)} })
             : s1 \in {Conj(NewObj(st), Top(NewObj(st)), y)} })

\* s1: after new(Cayley).Conj(y); s2: after new(Cayley).Mul(x, that).
CayleyQuo(st, z, x, y) ==
    IF EqualsVal(Val(st, y), ZeroLit)
    THEN [st EXCEPT !.panic = TRUE]
    ELSE Only({ Only({ Dil(s2, z, Top(NewObj(s1)), FDiv(F(1), CayleyQuad(s2, y)))
             : s2 \in {CayleyMul(NewObj(s1), Top(NewObj(s1)), x, Top(NewObj(st)))} })
             : s1 \in {Conj(NewObj(st), Top(NewObj(st)), y)} })

KleinInv(st, z, y) ==
    IF EqualsVal(Val(st, y), ZeroLit)
    THEN [st EXCEPT !.panic = TRUE]
    ELSE Only({ Dil(s1, z, Top(NewObj(st)), FDiv(F(1), KleinQuad(s1, y)))
             : s1 \in {Conj(NewObj(st), Top(NewObj(st)), y)} })

KleinQuo(st, z, x, y) ==
    IF EqualsVal(Val(st, y), ZeroLit)
    THEN [st EXCEPT !.panic = TRUE]
    ELSE Only({ Only({ Dil(s2, z, Top(NewObj(s1)), FDiv(F(1), KleinQuad(s2, y)))
             : s2 \in {KleinMul(NewObj(s1), Top(NewObj(s1)), x, Top(NewObj(st)))} })
             : s1 \in {Conj(NewObj(st), Top(NewObj(st)), y)} })

Inv(K, st, z, y) ==
    IF K = "Cayley" THEN CayleyInv(st, z, y) ELSE KleinInv(st, z, y)

Quo(K, st, z, x, y) ==
    IF K = "Cayley" THEN CayleyQuo(st, z, x, y) ELSE KleinQuo(st, z, x, y)

----------------------------------------------------------------------------
(* The pool.  Cells no pool object points to are garbage: Collect drops    *)
(* them and renumbers the rest in the order the pool reaches them, which   *)
(* keeps pointer sharing between pool objects, if there is any.            *)

Roots(o, n) == [i \in 1..(2 * n) |-> o[(i + 1) \div 2][2 - (i % 2)]]

FirstIdx(r, a) == CHOOSE i \in 1..Len(r) : r[i] = a /\ \A j \in 1..(i - 1) : r[j] # a

Firsts(r) == {i \in 1..Len(r) : FirstIdx(r, r[i]) = i}

Rank(r, i) == Cardinality({j \in Firsts(r) : j <= i})

Collect(st, n) ==
    Only({ [h |-> [a \in 1..Cardinality(f) |->
                   st.h[r[CHOOSE i \in f : Rank(r, i) = a]]],
         o |-> [z \in 1..n |->
                   <<Rank(r, FirstIdx(r, st.o[z][1])),
                     Rank(r, FirstIdx(r, st.o[z][2]))>>]]
        : r \in {Roots(st.o, n)}, f \in {Firsts(Roots(st.o, n))} })

\* NewCayley / NewKlein for every value of vs: two fresh cells per object.
NewPool(vs) ==
    [h |-> [a \in 1..(2 * Len(vs)) |-> vs[(a + 1) \div 2][2 - (a % 2)]],
     o |-> [z \in 1..Len(vs) |-> <<2 * z - 1, 2 * z>>]]

Store == [h |-> heap, o |-> obj, panic |-> FALSE]

N == Len(obj)

PoolVals(st, n) == [i \in 1..n |-> Val(st, i)]

NumOK(a) == IF IsFinite(a) THEN ~FGt(FAbs(a), F(MaxAbs)) ELSE TRUE

InRange(st, n) ==
    \A i \in 1..n : \A k \in 1..2 : \A c \in 1..4 : NumOK(H(st, i, k)[c])

----------------------------------------------------------------------------
(* Inputs *)

Variants == {"Cayley", "Klein"}

QUnit(c, v) == [k \in 1..4 |-> IF k = c THEN F(v) ELSE F(0)]

\* The zero quaternion and the four basis units 1, i, j, k.
Units == {QUnit(c, v) : c \in 1..4, v \in 0..1}

\* Quaternions with at most one nonzero coordinate, in 0..MaxCoord.
QIn == {QUnit(c, v) : c \in 1..4, v \in 0..MaxCoord}

\* First operands: both halves are 0 or a basis unit.
XInputs == {<<p, q>> : p \in Units, q \in Units}

\* Second operands and divisors: the second half is drawn from QIn.
Inputs == {<<p, q>> : p \in Units, q \in QIn}

\* Real scalars for Dil.
RIn == {F(0), F(1)}

\* i + m and j + n: the pool of the aliasing runs.
AliasPool == << <<QUnit(2, 1), QUnit(1, 1)>>, <<QUnit(3, 1), QUnit(2, 1)>> >>

\* The unit i, third object of the algebra runs.
UnitI == <<QUnit(2, 1), QZero>>

NoCall == [op |-> "New", z |-> 0, w |-> 0, x |-> 0, y |-> 0,
           a |-> F(0), s |-> QZero, panic |-> FALSE]

Call(op, z, w, x, y) == [NoCall EXCEPT !.op = op, !.z = z, !.w = w, !.x = x, !.y = y]

InitWith(vs, al, n) ==
    /\ variant \in Variants
    /\ heap = NewPool(vs).h
    /\ obj = NewPool(vs).o
    /\ pre = vs
    /\ last = NoCall
    /\ aliasing = al
    /\ fuel = n

\* Destinations may alias operands; MaxSteps calls.
Init == InitWith(AliasPool, TRUE, MaxSteps)

\* x ranges over XInputs and y over Inputs, the destination is the third
\* object; one call.
InitAlg == \E x \in XInputs, y \in Inputs : InitWith(<<x, y, UnitI>>, FALSE, 1)

Zs == IF aliasing THEN 1..N ELSE {3}
Ws == IF aliasing THEN 1..N ELSE {3}
Xs == IF aliasing THEN 1..N ELSE {1}
Ys == IF aliasing THEN 1..N ELSE {2}

\* The call returned (or panicked) leaving store st.
Return(st, call) ==
    /\ fuel > 0
    /\ \E s \in {st} :
          /\ InRange(s, N)
          /\ \E c \in {Collect(s, N)} :
                /\ heap' = c.h
                /\ obj' = c.o
          /\ last' = [call EXCEPT !.panic = s.panic]
    /\ pre' = PoolVals(Store, N)
    /\ fuel' = fuel - 1
    /\ UNCHANGED <<variant, aliasing>>

----------------------------------------------------------------------------
(* One action per method. *)

DoCopy == \E z \in Zs, y \in Ys :
    Return(Copy(Store, z, y), Call("Copy", z, 0, 0, y))

DoScalR == \E z \in Zs, y \in Ys, s \in Units :
    Return(ScalR(Store, z, y, s), [Call("ScalR", z, 0, 0, y) EXCEPT !.s = s])

DoScalL == \E z \in Zs, y \in Ys, s \in Units :
    Return(ScalL(Store, z, s, y), [Call("ScalL", z, 0, 0, y) EXCEPT !.s = s])

DoDil == \E z \in Zs, y \in Ys, a \in RIn :
    Return(Dil(Store, z, y, a), [Call("Dil", z, 0, 0, y) EXCEPT !.a = a])

DoNeg == \E z \in Zs, y \in Ys :
    Return(Neg(Store, z, y), Call("Neg", z, 0, 0, y))

DoConj == \E z \in Zs, y \in Ys :
    Return(Conj(Store, z, y), Call("Conj", z, 0, 0, y))

DoAdd == \E z \in Zs, x \in Xs, y \in Ys :
    Return(Add(Store, z, x, y), Call("Add", z, 0, x, y))

DoSub == \E z \in Zs, x \in Xs, y \in Ys :
    Return(Sub(Store, z, x, y), Call("Sub", z, 0, x, y))

DoMul == \E z \in Zs, x \in Xs, y \in Ys :
    Return(Mul(variant, Store, z, x, y), Call("Mul", z, 0, x, y))

DoCommutator == \E z \in Zs, x \in Xs, y \in Ys :
    Return(Commutator(variant, Store, z, x, y), Call("Commutator", z, 0, x, y))

DoAssociator == \E z \in Zs, w \in Ws, x \in Xs, y \in Ys :
    Return(Associator(variant, Store, z, w, x, y), Call("Associator", z, w, x, y))

DoInv == \E z \in Zs, y \in Ys :
    Return(Inv(variant, Store, z, y), Call("Inv", z, 0, 0, y))

DoQuo == \E z \in Zs, x \in Xs, y \in Ys :
    Return(Quo(variant, Store, z, x, y), Call("Quo", z, 0, x, y))

Next ==
    \/ DoCopy
    \/ DoScalR
    \/ DoScalL
    \/ DoDil
    \/ DoNeg
    \/ DoConj
    \/ DoAdd
    \/ DoSub
    \/ DoMul
    \/ DoCommutator
    \/ DoAssociator
    \/ DoInv
    \/ DoQuo

Spec == Init /\ [][Next]_vars

SpecAlg == InitAlg /\ [][Next]_vars

----------------------------------------------------------------------------
(* Vocabulary of the properties. *)

\* Current value of pool object i.
V(i) == Val(Store, i)

\* A store holding fresh objects with the values vs.
Fresh(vs) == [h |-> NewPool(vs).h, o |-> NewPool(vs).o, panic |-> FALSE]

\* What new(..).Mul(x, y), new(..).Conj(y) and new(..).Inv(y) hold on
\* return; Inv of the zero value panics and has no value.
MulVal(K, x, y) == Val(Mul(K, NewObj(Fresh(<<x, y>>)), 3, 1, 2), 3)

ConjVal(y) == Val(Conj(NewObj(Fresh(<<y>>)), 2, 1), 2)

InvVal(K, y) ==
    Only({ IF s.panic THEN <<>> ELSE Val(s, 2)
        : s \in {Inv(K, NewObj(Fresh(<<y>>)), 2, 1)} })

QuadVal(K, y) == Quad(K, Fresh(<<y>>), 1)

\* The product as the specification writes it, for x = (p, q), y = (r, s):
\* (p*r - eps*conj(s)*q, s*p + q*conj(r)).
MulFormula(K, x, y) ==
    << IF K = "Cayley"
       THEN QSub(QMul(x[1], y[1]), QMul(QConj(y[2]), x[2]))
       ELSE QAdd(QMul(x[1], y[1]), QMul(QConj(y[2]), x[2])),
       QAdd(QMul(y[2], x[1]), QMul(x[2], QConj(y[1]))) >>

\* All 8 coordinates are 0 (either zero).
AllZero(v) == \A k \in 1..2 : \A c \in 1..4 : IsZero(v[k][c])

AllFinite(v) == \A k \in 1..2 : \A c \in 1..4 : IsFinite(v[k][c])

NoneFinite(v) == \A k \in 1..2 : \A c \in 1..4 : ~IsFinite(v[k][c])

\* No coordinate of u differs from that of v by more than delta.
Near(u, v) == \A k \in 1..2 : \A c \in 1..4 : ~notEquals(u[k][c], v[k][c])

\* a is a power of two: 1/a is computed without rounding.
IsPow2(a) == IsFinite(a) /\ a.m = <<1>>

\* (1, 0, 0, 0, 0, 0, 0, 0)
One == <<QUnit(1, 1), QZero>>

\* (a, 0, 0, 0, 0, 0, 0, 0) for a real a.
Real(a) == <<[QZero EXCEPT ![1] = a], QZero>>

\* The octonion whose first half is the quaternion a and whose second is 0.
Embed(a) == <<a, QZero>>

----------------------------------------------------------------------------
(* Properties. *)

\* C1: ScalR and ScalL are restrictions of Mul: the destination of
\* ScalR(y, a) equals Mul(y, (a, 0)) and the destination of ScalL(a, y)
\* equals Mul((a, 0), y), for every quaternion a, non-real ones included.
C1_ScalIsMul ==
    /\ last.op = "ScalR" =>
          EqualsVal(V(last.z), MulVal(variant, pre[last.y], Embed(last.s)))
    /\ last.op = "ScalL" =>
          EqualsVal(V(last.z), MulVal(variant, Embed(last.s), pre[last.y]))

\* C2: Mul is correct under destination aliasing: whatever objects z, x and
\* y are (z = x, z = y, z = x = y included), after z.Mul(x, y) the
\* destination holds (p*r - eps*conj(s)*q, s*p + q*conj(r)) computed from
\* the operand values at call time.
C2_MulAliasing ==
    last.op = "Mul" =>
        V(last.z) = MulFormula(variant, pre[last.x], pre[last.y])

\* C2 witness: an in-place squaring x.Mul(x, x) that changed x.
C2_Witness ==
    /\ last.op = "Mul"
    /\ last.z = last.x
    /\ last.z = last.y
    /\ V(last.z) # pre[last.z]
    /\ ~AllZero(V(last.z))

\* C3: composition identity over integer coordinates: Quad(Mul(x, y)) equals
\* Quad(x) * Quad(y), with Quad = Quad(p) + Quad(q) for Cayley and
\* Quad(p) - Quad(q) for Klein.
C3_Composition ==
    last.op = "Mul" =>
        FEq(QuadVal(variant, V(last.z)),
            FMul(QuadVal(variant, pre[last.x]), QuadVal(variant, pre[last.y])))

\* C3 witness: a Klein product of an operand of quadrance -1 by one of
\* quadrance -9, or a Cayley product of an operand of quadrance 2 by one of
\* quadrance 10, has been computed.
C3_Witness ==
    /\ last.op = "Mul"
    /\ \/ /\ variant = "Klein"
          /\ QuadVal(variant, pre[last.x]) = F(-1)
          /\ QuadVal(variant, pre[last.y]) = F(-9)
       \/ /\ variant = "Cayley"
          /\ QuadVal(variant, pre[last.x]) = F(2)
          /\ QuadVal(variant, pre[last.y]) = F(10)

\* C4: Cayley's Inv and Quo panic exactly when all 8 coordinates of the
\* divisor y are 0, whatever the numerator and the destination; the
\* panicking call leaves every object, the destination included, as it was;
\* a call with a nonzero y returns.
C4_ZeroDivisor ==
    (variant = "Cayley" /\ last.op \in {"Inv", "Quo"}) =>
        /\ last.panic <=> AllZero(pre[last.y])
        /\ last.panic => \A i \in 1..N : V(i) = pre[i]

\* C4 witness: a Quo into its own numerator panicked on a zero divisor.
C4_Witness ==
    /\ variant = "Cayley"
    /\ last.op = "Quo"
    /\ last.panic
    /\ last.z = last.x
    /\ ~AllZero(pre[last.x])

\* C5: in the Klein variant, Inv and Quo with a nonzero divisor y of
\* quadrance 0 (Quad(p) = Quad(q)) do not panic and leave a non-finite value
\* (every coordinate Inf or NaN) in the destination; the guard is the zero
\* literal only: they panic exactly when all 8 coordinates of y are 0.
C5_KleinIsotropic ==
    (variant = "Klein" /\ last.op \in {"Inv", "Quo"}) =>
        /\ last.panic <=> AllZero(pre[last.y])
        /\ (~AllZero(pre[last.y])
               /\ FEq(QQuad(pre[last.y][1]), QQuad(pre[last.y][2])))
              => (IsZero(QuadVal("Klein", pre[last.y]))
                     /\ NoneFinite(V(last.z)))

\* C5 witness: Klein's Inv of the isotropic 1 + s returned.
C5_Witness ==
    /\ variant = "Klein"
    /\ last.op = "Inv"
    /\ pre[last.y] = <<QUnit(1, 1), QUnit(1, 1)>>
    /\ ~last.panic

\* C6 as stated: for every Cayley x with Quad(x) > 0, Mul(x, Inv(x)) equals
\* the unit (1,0,0,0,0,0,0,0), and Mul(x, Conj(x)) equals
\* (Quad(x),0,0,0,0,0,0,0).
C6_Original ==
    (/\ variant = "Cayley"
     /\ last.op = "Inv"
     /\ ~last.panic
     /\ FGt(QuadVal("Cayley", pre[last.y]), F(0))) =>
        /\ EqualsVal(MulVal("Cayley", pre[last.y], V(last.z)), One)
        /\ EqualsVal(MulVal("Cayley", pre[last.y], ConjVal(pre[last.y])),
                     Real(QuadVal("Cayley", pre[last.y])))

\* C6, amended: for every Cayley x with small integer coordinates and
\* Quad(x) > 0, Mul(x, Inv(x)) equals the unit up to the rounding of
\* float64: no coordinate differs from that of the unit by more than delta,
\* the equality is exact when Quad(x) is a power of two, and
\* Mul(x, Conj(x)) equals (Quad(x),0,0,0,0,0,0,0) exactly.
C6_InverseIsInverse ==
    (/\ variant = "Cayley"
     /\ last.op = "Inv"
     /\ ~last.panic
     /\ FGt(QuadVal("Cayley", pre[last.y]), F(0))) =>
        /\ Near(MulVal("Cayley", pre[last.y], V(last.z)), One)
        /\ IsPow2(QuadVal("Cayley", pre[last.y])) =>
              EqualsVal(MulVal("Cayley", pre[last.y], V(last.z)), One)
        /\ EqualsVal(MulVal("Cayley", pre[last.y], ConjVal(pre[last.y])),
                     Real(QuadVal("Cayley", pre[last.y])))

\* C6 witness: the inverse of an x of quadrance 10 (1/10 is rounded) whose
\* product with x is not the unit coordinate for coordinate.
C6_Witness ==
    /\ variant = "Cayley"
    /\ last.op = "Inv"
    /\ ~last.panic
    /\ QuadVal("Cayley", pre[last.y]) = F(10)
    /\ ~EqualsVal(MulVal("Cayley", pre[last.y], V(last.z)), One)

\* C7 as stated: for x and y with Quad(y) # 0, Quo(x, y) holds the same 8
\* coordinates as Mul(x, Inv(y)).
C7_Original ==
    (/\ variant = "Cayley"
     /\ last.op = "Quo"
     /\ ~last.panic
     /\ ~FEq(QuadVal("Cayley", pre[last.y]), F(0))) =>
        EqualsVal(V(last.z),
                  MulVal("Cayley", pre[last.x], InvVal("Cayley", pre[last.y])))

\* C7, amended: for Cayley x and y with small integer coordinates and
\* Quad(y) # 0, Quo(x, y) equals Mul(x, Inv(y)) up to the rounding of
\* float64: no coordinate of one differs from that of the other by more
\* than delta, and the 8 coordinates are the same when Quad(y) is a power
\* of two.
C7_QuoIsMulInv ==
    (/\ variant = "Cayley"
     /\ last.op = "Quo"
     /\ ~last.panic
     /\ ~FEq(QuadVal("Cayley", pre[last.y]), F(0))) =>
        /\ Near(V(last.z),
                MulVal("Cayley", pre[last.x], InvVal("Cayley", pre[last.y])))
        /\ IsPow2(QuadVal("Cayley", pre[last.y])) =>
              EqualsVal(V(last.z),
                        MulVal("Cayley", pre[last.x],
                               InvVal("Cayley", pre[last.y])))

\* C7 witness: a quotient by a y of quadrance 10 that is not Mul(x, Inv(y))
\* coordinate for coordinate.
C7_Witness ==
    /\ variant = "Cayley"
    /\ last.op = "Quo"
    /\ ~last.panic
    /\ QuadVal("Cayley", pre[last.y]) = F(10)
    /\ ~EqualsVal(V(last.z),
                  MulVal("Cayley", pre[last.x], InvVal("Cayley", pre[last.y])))

\* C8: a call changes the value of its destination only: every other pool
\* object keeps its coordinates, and no two pool objects ever share a
\* quaternion cell.
C8_Frame ==
    /\ \A i \in 1..N : i # last.z => V(i) = pre[i]
    /\ \A i, j \in 1..N : \A k, l \in 1..2 :
          (obj[i][k] = obj[j][l]) => (i = j /\ k = l)

\* C8 witness: after a Copy into object 2 from object 1, a Mul into an
\* operand changed that operand while the other object kept its value.
C8_Witness ==
    /\ fuel = 0
    /\ last.op = "Mul"
    /\ last.z = 1
    /\ last.y = 1
    /\ V(1) # pre[1]
    /\ V(2) = pre[2]
    /\ V(2) = AliasPool[1]

\* C9: Conj is an exact involution in both variants: Conj(y) is
\* (conj(p), -q) for y = (p, q), and Conj of that is y again, coordinate by
\* coordinate, also when the destination is y itself.
C9_ConjInvolution ==
    last.op = "Conj" =>
        /\ V(last.z) = << QConj(pre[last.y][1]),
                          [c \in 1..4 |-> FNeg(pre[last.y][2][c])] >>
        /\ ConjVal(V(last.z)) = pre[last.y]

\* C9 witness: an in-place Conj of a value with a nonzero second half.
C9_Witness ==
    /\ last.op = "Conj"
    /\ last.z = last.y
    /\ ~QEquals(pre[last.y][2], QZero)
    /\ V(last.z) # pre[last.y]

\* C10: multiplication is not associative: for the three distinct unit
\* basis elements w = i, x = j, y = m (coordinates 2, 3 and 5),
\* Associator(w, x, y) is not zero; it is twice the last basis unit.
C10_NonAssociative ==
    (/\ last.op = "Associator"
     /\ pre[last.w] = <<QUnit(2, 1), QZero>>
     /\ pre[last.x] = <<QUnit(3, 1), QZero>>
     /\ pre[last.y] = <<QZero, QUnit(1, 1)>>) =>
        /\ ~AllZero(V(last.z))
        /\ EqualsVal(V(last.z), <<QZero, QUnit(4, 2)>>)

\* C10 witness: that associator has been computed, in the Cayley variant.
C10_Witness ==
    /\ variant = "Cayley"
    /\ last.op = "Associator"
    /\ pre[last.w] = <<QUnit(2, 1), QZero>>
    /\ pre[last.x] = <<QUnit(3, 1), QZero>>
    /\ pre[last.y] = <<QZero, QUnit(1, 1)>>

====
